---- MODULE Spec2Model ----
(***************************************************************************)
(* Model of src/main.py: the question generator that segments a text into  *)
(* sentences, extracts subject-relation-object facts with ten ordered      *)
(* regular expressions and renders open-answer, multiple-choice and        *)
(* true/false items from them.                                             *)
(*                                                                         *)
(* Strings are sequences of tokens.  A token is one character ("x", " ",   *)
(* ".") or one fixed word that the patterns treat as a unit ("is",         *)
(* "was born in").  Chinese characters are written in ASCII:               *)
(*   "shi" = U+662F (is)         "chusheng" = U+51FA U+751F (born)         *)
(*   "yu" = U+4E8E, "zai" = U+5728 (at)                                    *)
(*   "nian", "yue", "ri" = U+5E74, U+6708, U+65E5 (year, month, day)       *)
(*   "faming" = U+53D1 U+660E (invent)   "le" = U+4E86                     *)
(*   "chuangjian" = U+521B U+5EFA (create)                                 *)
(*   "zh." "zh!" "zh?" = U+3002 U+FF01 U+FF1F (full-width . ! ?)           *)
(*   "zhengque" = U+6B63 U+786E (true)   "cuowu" = U+9519 U+8BEF (false)   *)
(*   "shenme" = U+4EC0 U+4E48 (what)     "nali" = U+54EA U+91CC (where)    *)
(*   "shenmeshihou" = U+4EC0 U+4E48 U+65F6 U+5019 (when)                   *)
(*   "yixianaxiangmiaoshu" = U+4EE5 U+4E0B U+54EA U+9879 U+63CF U+8FF0     *)
(***************************************************************************)
EXTENDS Integers, Sequences, FiniteSets, TLC

VARIABLES text, sentences, facts, choices_count, question_type, seed, rng,
          qa_questions, mcq_questions, tf_questions, pc, run, first_run

vars == <<text, sentences, facts, choices_count, question_type, seed, rng,
          qa_questions, mcq_questions, tf_questions, pc, run, first_run>>

(***************************************************************************)
(* Bounds of the input families.                                           *)
(***************************************************************************)
MaxRawLen == 5
MaxEnWords == 5
MaxKwWords == 3
MaxZhLen == 6
MaxZhKwLen == 3
MaxSentences == 3
MaxChoices == 3
RngModulus == 8

(***************************************************************************)
(* Character classes.                                                      *)
(***************************************************************************)
Whitespace == {" ", "\n"}

TermMarks == {".", "!", "?", "zh.", "zh!", "zh?"}

DateUnits == {"nian", "yue", "ri"}

\* re.IGNORECASE: the only upper-case spelling in the alphabet is "IS".
Lower(tok) == IF tok = "IS" THEN "is" ELSE tok

Min(S) == CHOOSE a \in S : \A b \in S : a <= b

Max(S) == CHOOSE a \in S : \A b \in S : a >= b

(***************************************************************************)
(* split_sentences                                                         *)
(***************************************************************************)
RECURSIVE SplitWords(_, _, _)
\* str.split(): the maximal runs of non-whitespace, in order.
SplitWords(s, acc, cur) ==
    IF s = <<>>
    THEN IF cur = <<>> THEN acc ELSE Append(acc, cur)
    ELSE IF Head(s) \in Whitespace
         THEN SplitWords(Tail(s), IF cur = <<>> THEN acc ELSE Append(acc, cur), <<>>)
         ELSE SplitWords(Tail(s), acc, Append(cur, Head(s)))

RECURSIVE Join(_, _)
\* sep.join(parts)
Join(parts, sep) ==
    IF parts = <<>> THEN <<>>
    ELSE IF Len(parts) = 1 THEN parts[1]
    ELSE parts[1] \o sep \o Join(Tail(parts), sep)

RECURSIVE RunEnd(_, _)
\* last position of the whitespace run that starts at p (\s+ is greedy)
RunEnd(s, p) ==
    IF p < Len(s) /\ s[p + 1] \in Whitespace THEN RunEnd(s, p + 1) ELSE p

\* The same pattern without the lookbehind: the mark is consumed with the
\* whitespace that follows it.
SplitAtConsuming(s, p) ==
    \/ s[p] \in Whitespace /\ p > 1 /\ s[p - 1] \in TermMarks
    \/ s[p] \in TermMarks /\ p < Len(s) /\ s[p + 1] \in Whitespace

\* _SENTENCE_SPLIT_RE matches at p: whitespace right after a terminal mark.
SplitAt(s, p) == s[p] \in Whitespace /\ p > 1 /\ s[p - 1] \in TermMarks

RECURSIVE ReSplit(_, _, _, _)
\* _SENTENCE_SPLIT_RE.split(s), scanning from position p
ReSplit(s, p, acc, cur) ==
    IF p > Len(s) THEN Append(acc, cur)
    ELSE IF SplitAt(s, p)
         THEN ReSplit(s, RunEnd(s, p) + 1, Append(acc, cur), <<>>)
         ELSE ReSplit(s, p + 1, acc, Append(cur, s[p]))

RECURSIVE LStrip(_)
LStrip(s) == IF s # <<>> /\ Head(s) \in Whitespace THEN LStrip(Tail(s)) ELSE s

RECURSIVE RStrip(_)
RStrip(s) ==
    IF s # <<>> /\ s[Len(s)] \in Whitespace THEN RStrip(SubSeq(s, 1, Len(s) - 1)) ELSE s

\* str.strip()
Strip(s) == RStrip(LStrip(s))

RECURSIVE StripNonEmpty(_)
\* [sentence.strip() for sentence in sentences if sentence.strip()]
StripNonEmpty(parts) ==
    IF parts = <<>> THEN <<>>
    ELSE LET t == Strip(Head(parts))
         IN  IF t = <<>> THEN StripNonEmpty(Tail(parts))
             ELSE <<t>> \o StripNonEmpty(Tail(parts))

split_sentences(t) ==
    LET cleaned == Join(SplitWords(t, <<>>, <<>>), <<" ">>)
    IN  IF cleaned = <<>> THEN <<>>
        ELSE StripNonEmpty(ReSplit(cleaned, 1, <<>>, <<>>))

(***************************************************************************)
(* extract_facts: the ordered pattern table and the regex search           *)
(***************************************************************************)
\* A pattern is ^(?P<subject>.+?) KEYWORD (?P<object>.+?) TERM?$ where
\*   spaced: KEYWORD is \s+ req \s+ (English), else req followed by an
\*           optional token of opt (Chinese "le");
\*   req:    one set of accepted tokens per position;
\*   icase:  re.IGNORECASE;
\*   dated:  the object is .+?(?:nian|yue|ri).+? ;
\*   term:   the optional final mark.
EnPattern(word, relation) ==
    [spaced |-> TRUE, req |-> <<{word}>>, opt |-> {}, icase |-> TRUE,
     dated |-> FALSE, term |-> ".", relation |-> relation, language |-> "en"]

ZhPattern(req, opt, dated, relation) ==
    [spaced |-> FALSE, req |-> req, opt |-> opt, icase |-> FALSE,
     dated |-> dated, term |-> "zh.", relation |-> relation, language |-> "zh"]

\* The table with the two Chinese born patterns exchanged.
patterns_born_on_first ==
    << EnPattern("is", "is"),
       EnPattern("was born in", "born_in"),
       EnPattern("was born on", "born_on"),
       EnPattern("invented", "invented"),
       EnPattern("created", "created"),
       ZhPattern(<<{"shi"}>>, {}, FALSE, "is"),
       ZhPattern(<<{"chusheng"}, {"yu"}>>, {}, TRUE, "born_on"),
       ZhPattern(<<{"chusheng"}, {"yu", "zai"}>>, {}, FALSE, "born_in"),
       ZhPattern(<<{"faming"}>>, {"le"}, FALSE, "invented"),
       ZhPattern(<<{"chuangjian"}>>, {"le"}, FALSE, "created") >>

patterns ==
    << EnPattern("is", "is"),
       EnPattern("was born in", "born_in"),
       EnPattern("was born on", "born_on"),
       EnPattern("invented", "invented"),
       EnPattern("created", "created"),
       ZhPattern(<<{"shi"}>>, {}, FALSE, "is"),
       ZhPattern(<<{"chusheng"}, {"yu", "zai"}>>, {}, FALSE, "born_in"),
       ZhPattern(<<{"chusheng"}, {"yu"}>>, {}, TRUE, "born_on"),
       ZhPattern(<<{"faming"}>>, {"le"}, FALSE, "invented"),
       ZhPattern(<<{"chuangjian"}>>, {"le"}, FALSE, "created") >>

\* "." matches any character except a newline
Dots(s) == \A q \in 1..Len(s) : s[q] # "\n"

\* req matches s at positions from+1 .. from+Len(req)
ReqAt(p, s, from) ==
    /\ from + Len(p.req) <= Len(s)
    /\ \A q \in 1..Len(p.req) :
           (IF p.icase THEN Lower(s[from + q]) ELSE s[from + q]) \in p.req[q]

\* the keyword of p matches exactly s[i+1 .. j]
KeywordMatch(p, s, i, j) ==
    IF p.spaced
    THEN \E a \in (i + 1)..(j - 2) :
            /\ \A q \in (i + 1)..a : s[q] \in Whitespace
            /\ ReqAt(p, s, a)
            /\ a + Len(p.req) < j
            /\ \A q \in (a + Len(p.req) + 1)..j : s[q] \in Whitespace
    ELSE /\ ReqAt(p, s, i)
         /\ \/ j = i + Len(p.req)
            \/ j = i + Len(p.req) + 1 /\ s[j] \in p.opt

\* the object group matches o
ObjectMatch(p, o) ==
    /\ o # <<>>
    /\ Dots(o)
    /\ p.dated => \E q \in 2..(Len(o) - 1) : o[q] \in DateUnits

\* TERM?$ matches s[m+1 ..]: "$" is the end or just before a final newline
TailMatch(p, s, m) ==
    LET rest == SubSeq(s, m + 1, Len(s))
    IN  rest \in {<<>>, <<p.term>>, <<"\n">>, <<p.term, "\n">>}

\* every way the pattern can match the whole sentence: subject s[1..i],
\* keyword s[i+1..j], object s[j+1..m]
AllMatches(p, s) ==
    {ijm \in (1..Len(s)) \X (1..Len(s)) \X ((Len(s) - 2)..Len(s)) :
        /\ ijm[1] < ijm[2] /\ ijm[2] < ijm[3]
        /\ Dots(SubSeq(s, 1, ijm[1]))
        /\ KeywordMatch(p, s, ijm[1], ijm[2])
        /\ ObjectMatch(p, SubSeq(s, ijm[2] + 1, ijm[3]))
        /\ TailMatch(p, s, ijm[3])}

\* A greedy subject group (.+ instead of .+?): the longest subject first.
PickGreedySubject(ms) ==
    LET i == Max({x[1] : x \in ms})
        j == Max({x[2] : x \in {y \in ms : y[1] = i}})
        m == Min({x[3] : x \in {y \in ms : y[1] = i /\ y[2] = j}})
    IN  <<i, j, m>>

\* The match the backtracking search finds first: shortest subject (.+?),
\* then longest keyword (\s+ and the optional token are greedy), then
\* shortest object (.+?).
Pick(ms) ==
    LET i == Min({x[1] : x \in ms})
        j == Max({x[2] : x \in {y \in ms : y[1] = i}})
        m == Min({x[3] : x \in {y \in ms : y[1] = i /\ y[2] = j}})
    IN  <<i, j, m>>

Matches(p, s) == AllMatches(p, s) # {}

\* pattern.match(sentence): the two named groups
Match(p, s) ==
    LET ijm == Pick(AllMatches(p, s))
    IN  [subject |-> SubSeq(s, 1, ijm[1]), object |-> SubSeq(s, ijm[2] + 1, ijm[3])]

\* The inner loop taking the last matching pattern instead of the first.
LastMatching(table, s) ==
    LET hit == {n \in 1..Len(table) : Matches(table[n], s)}
    IN  IF hit = {} THEN 0 ELSE Max(hit)

\* index of the first pattern of the table that matches, 0 if none
FirstMatching(table, s) ==
    LET hit == {n \in 1..Len(table) : Matches(table[n], s)}
    IN  IF hit = {} THEN 0 ELSE Min(hit)

Fact(p, s) ==
    LET g == Match(p, s)
    IN  [subject |-> Strip(g.subject), relation |-> p.relation,
         obj |-> Strip(g.object), source_sentence |-> s, language |-> p.language]

RECURSIVE extract_facts(_)
extract_facts(ss) ==
    IF ss = <<>> THEN <<>>
    ELSE LET n == FirstMatching(patterns, Head(ss))
         IN  (IF n = 0 THEN <<>> ELSE <<Fact(patterns[n], Head(ss))>>)
             \o extract_facts(Tail(ss))

(***************************************************************************)
(* Input families                                                          *)
(***************************************************************************)
SeqsUpTo(S, n) == UNION {[1..m -> S] : m \in 0..n}

\* raw texts: every short string over letters, both kinds of whitespace,
\* both kinds of full stop and the Chinese copula
RawAlphabet == {"x", " ", "\n", ".", "zh.", "shi"}

RawTexts == SeqsUpTo(RawAlphabet, MaxRawLen)

\* English texts: words separated by single spaces, with or without a
\* final mark
EnWords == {"x", "is", "invented"}

EnFinals == {<<>>, <<".">>, <<"!">>}

EnTexts ==
    {Join([q \in 1..Len(ws) |-> <<ws[q]>>], <<" ">>) \o f :
        ws \in SeqsUpTo(EnWords, MaxEnWords), f \in EnFinals}

KwWords == {"x", "is", "IS", "was born in", "was born on", "invented", "created"}

KwTexts ==
    {Join([q \in 1..Len(ws) |-> <<ws[q]>>], <<" ">>) \o f :
        ws \in SeqsUpTo(KwWords, MaxKwWords), f \in {<<>>, <<".">>}}

\* Chinese texts
ZhAlphabet == {"x", "chusheng", "yu", "nian", "zh."}

ZhTexts == SeqsUpTo(ZhAlphabet, MaxZhLen)

ZhKwAlphabet ==
    {"x", "shi", "chusheng", "yu", "zai", "ri", "faming", "le", "chuangjian", "zh."}

ZhKwTexts == SeqsUpTo(ZhKwAlphabet, MaxZhKwLen)

(***************************************************************************)
(* main(), up to the extraction                                            *)
(***************************************************************************)
NoRun == [mcq |-> <<>>, tf |-> <<>>]

InitText ==
    /\ text \in RawTexts \cup EnTexts \cup KwTexts \cup ZhTexts \cup ZhKwTexts
    /\ sentences = <<>>
    /\ facts = <<>>
    /\ choices_count = 4
    /\ question_type = "qa"
    /\ seed = 0
    /\ rng = 0
    /\ qa_questions = <<>>
    /\ mcq_questions = <<>>
    /\ tf_questions = <<>>
    /\ pc = "split"
    /\ run = 1
    /\ first_run = NoRun

\* sentences = split_sentences(text)
SplitSentences ==
    /\ pc = "split"
    /\ sentences' = split_sentences(text)
    /\ pc' = "extract"
    /\ UNCHANGED <<text, facts, choices_count, question_type, seed, rng,
                   qa_questions, mcq_questions, tf_questions, run, first_run>>

\* facts = extract_facts(sentences)
ExtractFacts ==
    /\ pc = "extract"
    /\ facts' = extract_facts(sentences)
    /\ pc' = "seed"
    /\ UNCHANGED <<text, sentences, choices_count, question_type, seed, rng,
                   qa_questions, mcq_questions, tf_questions, run, first_run>>

NextText == SplitSentences \/ ExtractFacts

SpecText == InitText /\ [][NextText]_vars

(***************************************************************************)
(* The template tables and str.format                                      *)
(***************************************************************************)
QA_TEMPLATES ==
    [is |-> [en |-> <<"What", " ", "is", " ", "{subject}", "?">>,
             zh |-> <<"{subject}", "shi", "shenme", "zh?">>],
     born_in |-> [en |-> <<"Where", " ", "was", " ", "{subject}", " ", "born", "?">>,
                  zh |-> <<"{subject}", "chusheng", "yu", "nali", "zh?">>],
     born_on |-> [en |-> <<"When", " ", "was", " ", "{subject}", " ", "born", "?">>,
                  zh |-> <<"{subject}", "chusheng", "yu", "shenmeshihou", "zh?">>],
     invented |-> [en |-> <<"What", " ", "did", " ", "{subject}", " ", "invent", "?">>,
                   zh |-> <<"{subject}", "faming", "le", "shenme", "zh?">>],
     created |-> [en |-> <<"What", " ", "did", " ", "{subject}", " ", "create", "?">>,
                  zh |-> <<"{subject}", "chuangjian", "le", "shenme", "zh?">>]]

MCQ_TEMPLATES ==
    [is |-> [en |-> <<"Which", " ", "option", " ", "describes", " ", "{subject}", "?">>,
             zh |-> <<"yixianaxiangmiaoshu", "le", "{subject}", "zh?">>],
     born_in |-> [en |-> <<"Where", " ", "was", " ", "{subject}", " ", "born", "?">>,
                  zh |-> <<"{subject}", "chusheng", "yu", "nali", "zh?">>],
     born_on |-> [en |-> <<"When", " ", "was", " ", "{subject}", " ", "born", "?">>,
                  zh |-> <<"{subject}", "chusheng", "yu", "shenmeshihou", "zh?">>],
     invented |-> [en |-> <<"What", " ", "did", " ", "{subject}", " ", "invent", "?">>,
                   zh |-> <<"{subject}", "faming", "le", "shenme", "zh?">>],
     created |-> [en |-> <<"What", " ", "did", " ", "{subject}", " ", "create", "?">>,
                  zh |-> <<"{subject}", "chuangjian", "le", "shenme", "zh?">>]]

STATEMENT_TEMPLATES ==
    [is |-> [en |-> <<"{subject}", " ", "is", " ", "{obj}", ".">>,
             zh |-> <<"{subject}", "shi", "{obj}", "zh.">>],
     born_in |-> [en |-> <<"{subject}", " ", "was born in", " ", "{obj}", ".">>,
                  zh |-> <<"{subject}", "chusheng", "yu", "{obj}", "zh.">>],
     born_on |-> [en |-> <<"{subject}", " ", "was born on", " ", "{obj}", ".">>,
                  zh |-> <<"{subject}", "chusheng", "yu", "{obj}", "zh.">>],
     invented |-> [en |-> <<"{subject}", " ", "invented", " ", "{obj}", ".">>,
                   zh |-> <<"{subject}", "faming", "le", "{obj}", "zh.">>],
     created |-> [en |-> <<"{subject}", " ", "created", " ", "{obj}", ".">>,
                  zh |-> <<"{subject}", "chuangjian", "le", "{obj}", "zh.">>]]

\* TABLE.get(relation, {}).get(language): <<>> stands for None
Lookup(table, relation, language) ==
    IF relation \in DOMAIN table /\ language \in DOMAIN table[relation]
    THEN table[relation][language]
    ELSE <<>>

RECURSIVE Format(_, _, _)
\* template.format(subject=subject, obj=obj)
Format(template, subject, obj) ==
    IF template = <<>> THEN <<>>
    ELSE (IF Head(template) = "{subject}" THEN subject
          ELSE IF Head(template) = "{obj}" THEN obj
          ELSE <<Head(template)>>) \o Format(Tail(template), subject, obj)

(***************************************************************************)
(* The random source.  random.Random is a deterministic generator: its     *)
(* state after Random(seed) is a function of the seed, every draw is a     *)
(* function of the state.  It is modelled by a linear congruential         *)
(* generator over RngModulus states.                                       *)
(***************************************************************************)
\* Random() without the seed: the state comes from the system and differs
\* from one run of the program to the next.
RandomUnseeded(sd) == (3 * run) % RngModulus

\* Random(seed)
Random(sd) == sd % RngModulus

\* one draw of randbelow(n): the value drawn and the state after it
RandBelow(r, n) ==
    LET nxt == (5 * r + 3) % RngModulus
    IN  [value |-> (nxt \div 2) % n, rng |-> nxt]

Swap(x, i, j) == [x EXCEPT ![i] = x[j], ![j] = x[i]]

RECURSIVE ShuffleFrom(_, _, _)
\* for i in reversed(range(1, len(x))): j = randbelow(i + 1); swap x[i], x[j]
\* (positions counted from 1 here)
ShuffleFrom(x, i, r) ==
    IF i < 2 THEN [list |-> x, rng |-> r]
    ELSE LET d == RandBelow(r, i)
         IN  ShuffleFrom(Swap(x, i, d.value + 1), i - 1, d.rng)

\* rng.shuffle(x)
Shuffle(x, r) == ShuffleFrom(x, Len(x), r)

\* rng.choice(x)
Choice(x, r) ==
    LET d == RandBelow(r, Len(x))
    IN  [item |-> x[d.value + 1], rng |-> d.rng]

(***************************************************************************)
(* generate_qa, generate_mcq, generate_true_false                          *)
(***************************************************************************)
RECURSIVE generate_qa(_)
generate_qa(fs) ==
    IF fs = <<>> THEN <<>>
    ELSE LET fact == Head(fs)
             template == Lookup(QA_TEMPLATES, fact.relation, fact.language)
         IN  (IF template = <<>> THEN <<>>
              ELSE <<[question |-> Format(template, fact.subject, <<>>),
                      answer |-> fact.obj,
                      source_sentence |-> fact.source_sentence]>>)
             \o generate_qa(Tail(fs))

\* distractor_pool = [fact.obj for fact in fact_list]
DistractorPool(fs) == [q \in 1..Len(fs) |-> fs[q].obj]

\* The filter left out: the pool itself.
CandidatesUnfiltered(pool, obj) == pool

\* [obj for obj in distractor_pool if obj != fact.obj]
Candidates(pool, obj) == SelectSeq(pool, LAMBDA o : o # obj)

\* candidates[: choices_count] : one distractor too many.
TakeDistractorsOffByOne(cands, k) ==
    SubSeq(cands, 1, Min({Len(cands), Max({0, k})}))

\* candidates[: max(1, choices_count - 1)]
TakeDistractors(cands, k) ==
    SubSeq(cands, 1, Min({Len(cands), Max({1, k - 1})}))

RECURSIVE McqLoop(_, _, _, _, _)
\* the loop of generate_mcq over the facts still to do
McqLoop(todo, pool, k, r, questions) ==
    IF todo = <<>> THEN [questions |-> questions, rng |-> r]
    ELSE LET fact == Head(todo)
             template == Lookup(MCQ_TEMPLATES, fact.relation, fact.language)
             candidates == Candidates(pool, fact.obj)
         IN  IF template = <<>> \/ candidates = <<>>
             THEN McqLoop(Tail(todo), pool, k, r, questions)
             ELSE LET shuffled == Shuffle(candidates, r)
                      choices == Shuffle(<<fact.obj>> \o TakeDistractors(shuffled.list, k),
                                         shuffled.rng)
                  IN  McqLoop(Tail(todo), pool, k, choices.rng,
                              Append(questions,
                                     [question |-> Format(template, fact.subject, <<>>),
                                      answer |-> fact.obj,
                                      options |-> choices.list,
                                      source_sentence |-> fact.source_sentence]))

generate_mcq(fs, k, r) == McqLoop(fs, DistractorPool(fs), k, r, <<>>)

TrueLabel(language) == IF language = "en" THEN "True" ELSE "zhengque"

FalseLabel(language) == IF language = "en" THEN "False" ELSE "cuowu"

\* The false statement appended before the true one.
EmitFalseFirst(questions, true_item, false_items) ==
    questions \o false_items \o <<true_item>>

\* questions.append(true item), then questions.append(false item) if any
Emit(questions, true_item, false_items) ==
    questions \o <<true_item>> \o false_items

RECURSIVE TfLoop(_, _, _, _)
\* the loop of generate_true_false over the facts still to do
TfLoop(todo, pool, r, questions) ==
    IF todo = <<>> THEN [questions |-> questions, rng |-> r]
    ELSE LET fact == Head(todo)
             template == Lookup(STATEMENT_TEMPLATES, fact.relation, fact.language)
             candidates == Candidates(pool, fact.obj)
             true_item == [statement |-> Format(template, fact.subject, fact.obj),
                           answer |-> TrueLabel(fact.language),
                           source_sentence |-> fact.source_sentence]
         IN  IF template = <<>>
             THEN TfLoop(Tail(todo), pool, r, questions)
             ELSE IF candidates = <<>>
             THEN TfLoop(Tail(todo), pool, r, Emit(questions, true_item, <<>>))
             ELSE LET false_obj == Choice(candidates, r)
                      false_item ==
                          [statement |-> Format(template, fact.subject, false_obj.item),
                           answer |-> FalseLabel(fact.language),
                           source_sentence |-> fact.source_sentence]
                  IN  TfLoop(Tail(todo), pool, false_obj.rng,
                             Emit(questions, true_item, <<false_item>>))

generate_true_false(fs, r) == TfLoop(fs, DistractorPool(fs), r, <<>>)

(***************************************************************************)
(* main(): the whole pipeline, run twice on the same arguments             *)
(***************************************************************************)
QuestionTypes == {"qa", "mcq", "truefalse", "all"}

\* the sentences the quiz texts are made of
SentencePool ==
    { <<"A", " ", "is", " ", "X", ".">>,
      <<"A", " ", "is", " ", "Y", ".">>,
      <<"B", " ", "invented", " ", "X", ".">>,
      <<"A", "shi", "Y", "zh.">> }

QuizTexts == {Join(ss, <<" ">>) : ss \in SeqsUpTo(SentencePool, MaxSentences)}

InitQuiz ==
    /\ text \in QuizTexts
    /\ sentences = <<>>
    /\ facts = <<>>
    /\ choices_count \in 1..MaxChoices
    /\ question_type \in QuestionTypes
    /\ seed \in 0..(RngModulus - 1)
    /\ rng = 0
    /\ qa_questions = <<>>
    /\ mcq_questions = <<>>
    /\ tf_questions = <<>>
    /\ pc = "split"
    /\ run = 1
    /\ first_run = NoRun

\* rng = Random(args.seed)
SeedRng ==
    /\ pc = "seed"
    /\ rng' = Random(seed)
    /\ pc' = "qa"
    /\ UNCHANGED <<text, sentences, facts, choices_count, question_type, seed,
                   qa_questions, mcq_questions, tf_questions, run, first_run>>

\* if args.question_type in ("qa", "all"): qa_questions = generate_qa(facts)
GenerateQa ==
    /\ pc = "qa"
    /\ qa_questions' = IF question_type \in {"qa", "all"}
                       THEN generate_qa(facts) ELSE qa_questions
    /\ pc' = "mcq"
    /\ UNCHANGED <<text, sentences, facts, choices_count, question_type, seed, rng,
                   mcq_questions, tf_questions, run, first_run>>

\* if args.question_type in ("mcq", "all"):
\*     mcq_questions = generate_mcq(facts, args.choices, rng)
GenerateMcq ==
    /\ pc = "mcq"
    /\ IF question_type \in {"mcq", "all"}
       THEN LET res == generate_mcq(facts, choices_count, rng)
            IN  mcq_questions' = res.questions /\ rng' = res.rng
       ELSE UNCHANGED <<mcq_questions, rng>>
    /\ pc' = "truefalse"
    /\ UNCHANGED <<text, sentences, facts, choices_count, question_type, seed,
                   qa_questions, tf_questions, run, first_run>>

\* if args.question_type in ("truefalse", "all"):
\*     tf_questions = generate_true_false(facts, rng)
GenerateTrueFalse ==
    /\ pc = "truefalse"
    /\ IF question_type \in {"truefalse", "all"}
       THEN LET res == generate_true_false(facts, rng)
            IN  tf_questions' = res.questions /\ rng' = res.rng
       ELSE UNCHANGED <<tf_questions, rng>>
    /\ pc' = "output"
    /\ UNCHANGED <<text, sentences, facts, choices_count, question_type, seed,
                   qa_questions, mcq_questions, run, first_run>>

\* the program is run a second time on the same text and arguments; the
\* questions of the first run are kept for comparison
RunAgain ==
    /\ pc = "output"
    /\ run = 1
    /\ first_run' = [mcq |-> mcq_questions, tf |-> tf_questions]
    /\ run' = 2
    /\ sentences' = <<>>
    /\ facts' = <<>>
    /\ qa_questions' = <<>>
    /\ mcq_questions' = <<>>
    /\ tf_questions' = <<>>
    /\ pc' = "split"
    /\ UNCHANGED <<text, choices_count, question_type, seed, rng>>

NextQuiz ==
    \/ SplitSentences
    \/ ExtractFacts
    \/ SeedRng
    \/ GenerateQa
    \/ GenerateMcq
    \/ GenerateTrueFalse
    \/ RunAgain

SpecQuiz == InitQuiz /\ [][NextQuiz]_vars

(***************************************************************************)
(* Properties of segmentation and extraction (checked under SpecText)      *)
(***************************************************************************)
Extracted == pc = "seed"

\* C5: segmentation is idempotent: splitting the sentences joined by single
\* spaces gives the same sentences in the same order.
C5_SegmentationIdempotent ==
    pc # "split" => split_sentences(Join(sentences, <<" ">>)) = sentences

\* a text that normalisation changes and that holds several sentences
C5_Witness ==
    /\ pc = "extract"
    /\ Len(sentences) >= 2
    /\ text # Join(sentences, <<" ">>)

Trimmed(s) == s # <<>> /\ s[1] \notin Whitespace /\ s[Len(s)] \notin Whitespace

\* C3: every extracted subject and object is non-empty, has no leading or
\* trailing whitespace and does not end in a sentence-final mark.
C3_FactsClean ==
    Extracted =>
        \A q \in 1..Len(facts) :
            /\ Trimmed(facts[q].subject)
            /\ Trimmed(facts[q].obj)
            /\ facts[q].subject[Len(facts[q].subject)] \notin TermMarks
            /\ facts[q].obj[Len(facts[q].obj)] \notin TermMarks

\* the (relation, language) tags in the documented order
PatternOrder ==
    << <<"is", "en">>, <<"born_in", "en">>, <<"born_on", "en">>,
       <<"invented", "en">>, <<"created", "en">>,
       <<"is", "zh">>, <<"born_in", "zh">>, <<"born_on", "zh">>,
       <<"invented", "zh">>, <<"created", "zh">> >>

\* the positions of PatternOrder whose pattern matches s
MatchingTags(s) ==
    {n \in 1..Len(PatternOrder) :
        \E q \in 1..Len(patterns) :
            /\ <<patterns[q].relation, patterns[q].language>> = PatternOrder[n]
            /\ Matches(patterns[q], s)}

MatchedSentences == SelectSeq(sentences, LAMBDA s : MatchingTags(s) # {})

\* a token "is" (in any case) with whitespace on both sides
HasIsWord(s) ==
    \E q \in 2..(Len(s) - 1) :
        Lower(s[q]) = "is" /\ s[q - 1] \in Whitespace /\ s[q + 1] \in Whitespace

\* positions of a whitespace-delimited "was born in"
BornInAt(s) ==
    {q \in 2..(Len(s) - 1) :
        s[q] = "was born in" /\ s[q - 1] \in Whitespace /\ s[q + 1] \in Whitespace}

\* s reads "S was born in O." with S and O non-empty and no word "is"
IsBornInSentence(s) ==
    /\ ~HasIsWord(s)
    /\ BornInAt(s) # {}
    /\ s[Len(s)] = "."
    /\ Min(BornInAt(s)) + 2 <= Len(s) - 1

\* C4: the facts are, in sentence order, one per sentence that some pattern
\* matches, tagged with the first matching pattern in the documented order;
\* and "S was born in O." without a word "is" gives (S, born_in, O, en).
C4_FirstPatternWins ==
    Extracted =>
        /\ Len(facts) = Len(MatchedSentences)
        /\ \A q \in 1..Len(facts) :
            LET s == MatchedSentences[q]
            IN  /\ facts[q].source_sentence = s
                /\ <<facts[q].relation, facts[q].language>>
                       = PatternOrder[Min(MatchingTags(s))]
                /\ IsBornInSentence(s) =>
                       LET k == Min(BornInAt(s))
                       IN  facts[q] = [subject |-> SubSeq(s, 1, k - 2),
                                       relation |-> "born_in",
                                       obj |-> SubSeq(s, k + 2, Len(s) - 1),
                                       source_sentence |-> s,
                                       language |-> "en"]

\* "x was born in x." was extracted as a born_in fact
C4_Witness ==
    /\ Extracted
    /\ \E q \in 1..Len(facts) :
           /\ IsBornInSentence(facts[q].source_sentence)
           /\ facts[q].relation = "born_in"
           /\ facts[q].subject = <<"x">>
           /\ facts[q].obj = <<"x">>

\* occurrences <<i, j>> of the keyword of p in s with at least min_before
\* tokens before it and at least one token after it
Occurrences(p, s, min_before) ==
    {ij \in (0..Len(s)) \X (1..Len(s)) :
        /\ min_before <= ij[1] /\ ij[1] < ij[2] /\ ij[2] < Len(s)
        /\ KeywordMatch(p, s, ij[1], ij[2])}

\* subject and object when the occurrence starting after i is bound: the
\* keyword takes all it can, the object runs to the optional final mark
Bound(p, s, occ, i) ==
    LET j == Max({x[2] : x \in {y \in occ : y[1] = i}})
        e == IF s[Len(s)] = p.term /\ Len(s) - 1 > j THEN Len(s) - 1 ELSE Len(s)
    IN  [subject |-> Strip(SubSeq(s, 1, i)), object |-> Strip(SubSeq(s, j + 1, e))]

\* the earliest keyword occurrence of any of the ten patterns
EarliestKeyword(s) ==
    LET all == {pi \in (1..Len(patterns)) \X (0..Len(s)) :
                   \E x \in Occurrences(patterns[pi[1]], s, 0) : x[1] = pi[2]}
        i == Min({pi[2] : pi \in all})
        n == Min({pi[1] : pi \in {y \in all : y[2] = i}})
    IN  Bound(patterns[n], s, Occurrences(patterns[n], s, 0), i)

ZhBornOn == ZhPattern(<<{"chusheng"}, {"yu"}>>, {}, TRUE, "born_on")

\* C9: a sentence that the Chinese born-on pattern matches gives a fact of
\* an earlier pattern, and no fact is tagged (born_on, zh).
C9_NoZhBornOn ==
    Extracted =>
        /\ \A q \in 1..Len(facts) :
               ~(facts[q].relation = "born_on" /\ facts[q].language = "zh")
        /\ \A q \in 1..Len(sentences) :
               Matches(ZhBornOn, sentences[q]) =>
                   \E n \in 1..7 : Matches(patterns[n], sentences[q])

\* a sentence with a date after chusheng-yu was extracted as born_in
C9_Witness ==
    /\ Extracted
    /\ \E q \in 1..Len(facts) :
           /\ Matches(ZhBornOn, facts[q].source_sentence)
           /\ facts[q].relation = "born_in" /\ facts[q].language = "zh"

(***************************************************************************)
(* Properties of the synthesizers (checked under SpecQuiz)                 *)
(***************************************************************************)
Count(x, v) == Cardinality({q \in 1..Len(x) : x[q] = v})

\* the pool of a fact with object obj: the objects of all facts that differ
\* from obj, duplicates counted
PoolSize(obj) == Cardinality({q \in 1..Len(facts) : facts[q].obj # obj})

\* C1 as stated: every multiple-choice record lists its answer exactly once
\* and has min(k, 1 + pool size) options.
C1_OptionsSizeMinK ==
    \A q \in 1..Len(mcq_questions) :
        LET r == mcq_questions[q]
        IN  /\ Count(r.options, r.answer) = 1
            /\ Len(r.options) = Min({choices_count, 1 + PoolSize(r.answer)})

\* C1 amended: every multiple-choice record lists its answer exactly once
\* and has 1 + min(max(1, k - 1), pool size) options, which is
\* min(k, 1 + pool size) when k >= 2 and 2 when k = 1.
C1_OptionsSize ==
    \A q \in 1..Len(mcq_questions) :
        LET r == mcq_questions[q]
        IN  /\ Count(r.options, r.answer) = 1
            /\ Len(r.options) =
                   1 + Min({Max({1, choices_count - 1}), PoolSize(r.answer)})
            /\ choices_count >= 2 =>
                   Len(r.options) = Min({choices_count, 1 + PoolSize(r.answer)})
            /\ choices_count = 1 => Len(r.options) = 2

\* one option asked for, and a record whose pool holds a duplicate
C1_Witness ==
    /\ choices_count = 1
    /\ \E q \in 1..Len(mcq_questions) : PoolSize(mcq_questions[q].answer) >= 2
    /\ Len(mcq_questions) = 3

TfGenerated == pc = "output" /\ question_type \in {"truefalse", "all"}

TrueLabels == {"True", "zhengque"}

FalseLabels == {"False", "cuowu"}

\* positions of the true/false records of sentence s with a label of labels
TfRecords(s, labels) ==
    {q \in 1..Len(tf_questions) :
        tf_questions[q].source_sentence = s /\ tf_questions[q].answer \in labels}

\* the facts that have a fact with another object beside them
HasOtherObject(q) == \E o \in 1..Len(facts) : o # q /\ facts[o].obj # facts[q].obj

\* C2: every fact gives one true item labelled in the fact's language, and
\* a false item exactly when another fact has a different object.
C2_TrueAlwaysFalseIffOther ==
    TfGenerated =>
        /\ \A q \in 1..Len(tf_questions) :
               \E o \in 1..Len(facts) :
                   /\ tf_questions[q].source_sentence = facts[o].source_sentence
                   /\ tf_questions[q].answer \in
                          {TrueLabel(facts[o].language), FalseLabel(facts[o].language)}
        /\ \A o \in 1..Len(facts) :
               LET s == facts[o].source_sentence
                   same == {q \in 1..Len(facts) : facts[q].source_sentence = s}
               IN  /\ Cardinality(TfRecords(s, {TrueLabel(facts[o].language)}))
                          = Cardinality(same)
                   /\ Cardinality(TfRecords(s, {FalseLabel(facts[o].language)}))
                          = Cardinality({q \in same : HasOtherObject(q)})

\* facts in both languages, all with the same object: no false item
C2_Witness ==
    /\ TfGenerated
    /\ Len(facts) = 2
    /\ facts[1].language # facts[2].language
    /\ facts[1].obj = facts[2].obj
    /\ Len(tf_questions) = 2

\* positions of the true items
TruePositions == {q \in 1..Len(tf_questions) : tf_questions[q].answer \in TrueLabels}

\* C8: the true items come in fact order, a false item directly follows the
\* true item of the same sentence, and two facts with distinct objects give
\* true, false, true, false.
C8_EmissionOrder ==
    TfGenerated =>
        /\ Cardinality(TruePositions) = Len(facts)
        /\ \A q \in TruePositions :
               tf_questions[q].source_sentence =
                   facts[Cardinality({o \in TruePositions : o <= q})].source_sentence
        /\ \A q \in 1..Len(tf_questions) :
               tf_questions[q].answer \in FalseLabels =>
                   /\ q > 1
                   /\ tf_questions[q - 1].answer \in TrueLabels
                   /\ tf_questions[q - 1].source_sentence = tf_questions[q].source_sentence
        /\ (Len(facts) = 2 /\ facts[1].obj # facts[2].obj) =>
               /\ Len(tf_questions) = 4
               /\ TruePositions = {1, 3}
               /\ tf_questions[1].source_sentence = facts[1].source_sentence
               /\ tf_questions[3].source_sentence = facts[2].source_sentence

\* two facts with distinct objects, from different sentences
C8_Witness ==
    /\ TfGenerated
    /\ Len(facts) = 2
    /\ facts[1].obj # facts[2].obj
    /\ facts[1].subject # facts[2].subject
    /\ Len(tf_questions) = 4

\* C10: no statement labelled false is also a statement labelled true in
\* the same output.
C10_FalseNeverTrue ==
    TfGenerated =>
        \A q \in 1..Len(tf_questions), o \in 1..Len(tf_questions) :
            (tf_questions[q].answer \in FalseLabels /\ tf_questions[o].answer \in TrueLabels)
                => tf_questions[q].statement # tf_questions[o].statement

SecondRunDone == pc = "output" /\ run = 2

====
